---- MODULE Spec2Model ----
(***************************************************************************)
(* Multi-queue round-robin dispatcher (src/src/scheduler.py).              *)
(*                                                                         *)
(* QueueRR is a fixed-capacity circular buffer of Task values; Scheduler   *)
(* owns the queues, the clock, the round-robin pointer, the per-queue id   *)
(* counters and skip flags.  create_queue, enqueue and mark_skip are       *)
(* atomic calls.  run is a loop: the call itself is one step, every turn   *)
(* of the loop is one step, and the dequeue / re-enqueue pair of a         *)
(* partially serviced task is split in two steps so that the state between *)
(* them is visible.                                                        *)
(*                                                                         *)
(* Spec   : the Scheduler driven by any sequence of calls.                 *)
(* FairSpec: Spec plus weak fairness of the run loop (run is synchronous:  *)
(*          once called, its loop keeps executing).                        *)
(* SpecQ  : one QueueRR driven by any interleaving of its own operations,  *)
(*          next to an abstract FIFO sequence.                             *)
(***************************************************************************)
EXTENDS Integers, Sequences, FiniteSets, TLC

VARIABLES
    time,         \* Scheduler.time
    queues,       \* Scheduler.queues      : queue id -> QueueRR
    queue_order,  \* Scheduler.queue_order : sequence of queue ids
    id_counters,  \* Scheduler.id_counters : queue id -> int
    skip_flags,   \* Scheduler.skip_flags  : queue id -> bool
    rr_index,     \* Scheduler.rr_index
    pc,           \* "idle" | "loop" (inside run's while) | "requeue" (between dequeue and enqueue)
    call,         \* the arguments of the run in progress (NoCall outside run)
    turns_done,   \* run's local turns_done
    held,         \* run's local t (the task taken out by dequeue in the partial-work branch)
    logs,         \* the list `logs` built by the current / last call
    out,          \* what the current / last call printed on stdout
    last_op,      \* the current / last call ("none" before the first, "run_steps" for run with steps)
    qt,           \* SpecQ: the QueueRR under test
    absq,         \* SpecQ: the abstract FIFO sequence
    qret,         \* SpecQ: what the last QueueRR operation returned
    absret        \* SpecQ: what the abstract FIFO returns for the same operation

vars == <<time, queues, queue_order, id_counters, skip_flags, rr_index,
          pc, call, turns_done, held, logs, out, last_op, qt, absq, qret, absret>>

schedVars == <<time, queues, queue_order, id_counters, skip_flags, rr_index,
               pc, call, turns_done, held, logs, out, last_op>>

queueVars == <<qt, absq, qret, absret>>

-----------------------------------------------------------------------------
(* Bounds of the model *)

MaxOrder == 2      \* create_queue is called at most this many times
MaxCap == 2        \* capacities passed to create_queue are 1..MaxCap
MaxCounter == 2    \* an id counter is incremented only while it is below this value
MaxRemaining == 2  \* a quantum < 1 is followed only while it leaves remaining <= this
MaxQCap == 3       \* SpecQ: capacities 1..MaxQCap

QueueIds == {"A", "B"}
Capacities == 1 .. MaxCap
Items == {"americano", "cortado"}     \* one item on the menu (cost 2), one that is not
Quanta == {-1, 1, 2}
StepArgs == 0 .. (MaxOrder + 1)

-----------------------------------------------------------------------------
(* Menu and Task *)

REQUIRED_MENU ==
    [i \in {"americano", "latte", "cappuccino", "mocha", "tea", "macchiato",
            "hot_chocolate"} |->
        CASE i = "americano" -> 2
          [] i = "latte" -> 3
          [] i = "cappuccino" -> 3
          [] i = "mocha" -> 4
          [] i = "tea" -> 1
          [] i = "macchiato" -> 2
          [] i = "hot_chocolate" -> 4]

Task(task_id, remaining) == [task_id |-> task_id, remaining |-> remaining]

\* Python's None in a slot of type Optional[Task]
NoTask == [task_id |-> "None", remaining |-> 0]

Min(a, b) == IF a <= b THEN a ELSE b

Digit(d) ==
    CASE d = 0 -> "0" [] d = 1 -> "1" [] d = 2 -> "2" [] d = 3 -> "3"
      [] d = 4 -> "4" [] d = 5 -> "5" [] d = 6 -> "6" [] d = 7 -> "7"
      [] d = 8 -> "8" [] d = 9 -> "9"

RECURSIVE Decimal(_)
Decimal(n) == IF n < 10 THEN Digit(n) ELSE Decimal(n \div 10) \o Digit(n % 10)

\* f"{n:03d}" for n >= 0
Pad3(n) ==
    IF n < 10 THEN "00" \o Decimal(n)
    ELSE IF n < 100 THEN "0" \o Decimal(n)
    ELSE Decimal(n)

\* f"{queue_id}-{n:03d}"
TaskId(queue_id, n) == queue_id \o "-" \o Pad3(n)

-----------------------------------------------------------------------------
(* QueueRR *)

QueueRR_init(queue_id, capacity) ==
    [queue_id |-> queue_id,
     capacity |-> capacity,
     buf      |-> [i \in 0 .. (capacity - 1) |-> NoTask],
     front    |-> 0,
     size     |-> 0]

\* faulty variant: the full test is off by one
QueueRR_enqueue_offbyone(q, task) ==
    IF q.size > q.capacity
    THEN [q |-> q, ret |-> FALSE]
    ELSE [q |-> [q EXCEPT !.buf[(q.front + q.size) % q.capacity] = task,
                          !.size = q.size + 1],
          ret |-> TRUE]

\* faulty variant: the tail index ignores _front
QueueRR_enqueue_nofront(q, task) ==
    IF q.size >= q.capacity
    THEN [q |-> q, ret |-> FALSE]
    ELSE [q |-> [q EXCEPT !.buf[q.size % q.capacity] = task,
                          !.size = q.size + 1],
          ret |-> TRUE]

QueueRR_enqueue(q, task) ==
    IF q.size >= q.capacity
    THEN [q |-> q, ret |-> FALSE]
    ELSE [q |-> [q EXCEPT !.buf[(q.front + q.size) % q.capacity] = task,
                          !.size = q.size + 1],
          ret |-> TRUE]

\* faulty variant: the front index is not advanced
QueueRR_dequeue_stuck(q) ==
    IF q.size = 0
    THEN [q |-> q, ret |-> NoTask]
    ELSE [q |-> [q EXCEPT !.buf[q.front] = NoTask,
                          !.size = q.size - 1],
          ret |-> q.buf[q.front]]

QueueRR_dequeue(q) ==
    IF q.size = 0
    THEN [q |-> q, ret |-> NoTask]
    ELSE [q |-> [q EXCEPT !.buf[q.front] = NoTask,
                          !.front = (q.front + 1) % q.capacity,
                          !.size = q.size - 1],
          ret |-> q.buf[q.front]]

QueueRR_peek(q) == IF q.size = 0 THEN NoTask ELSE q.buf[q.front]

QueueRR_len(q) == q.size

RECURSIVE TasksFrom(_, _, _)
TasksFrom(q, idx, k) ==
    IF k = 0 THEN <<>>
    ELSE (IF q.buf[idx] # NoTask THEN <<q.buf[idx]>> ELSE <<>>)
         \o TasksFrom(q, (idx + 1) % q.capacity, k - 1)

QueueRR_tasks_list(q) == TasksFrom(q, q.front, q.size)

-----------------------------------------------------------------------------
(* Log lines, as records of their key=value fields *)

EvCreate(t, q) == [event |-> "create", time |-> t, queue |-> q]
EvEnqueue(t, q, tid, r) ==
    [event |-> "enqueue", time |-> t, queue |-> q, task |-> tid, remaining |-> r]
EvReject(t, q, why) == [event |-> "reject", time |-> t, queue |-> q, reason |-> why]
EvSkip(t, q) == [event |-> "skip", time |-> t, queue |-> q]
EvRun(t, q) == [event |-> "run", time |-> t, queue |-> q]
EvWork(t, q, tid, r) ==
    [event |-> "work", time |-> t, queue |-> q, id |-> tid, remaining |-> r]
EvFinish(t, q, tid) == [event |-> "finish", time |-> t, queue |-> q, id |-> tid]
EvError(t, why) == [event |-> "error", time |-> t, reason |-> why]

NoticeUnknownItem == "Sorry, we don't serve that."
NoticeFull == "Sorry, we're at capacity."

-----------------------------------------------------------------------------
(* Scheduler helpers *)

\* rr_index as next_queue() leaves it
next_queue_index(rr, order) ==
    IF order = <<>> THEN rr
    ELSE LET r1 == IF rr < 0 THEN 0 ELSE rr
         IN  IF r1 >= Len(order) THEN r1 % Len(order) ELSE r1

\* what next_queue() returns ("None" for Python's None)
next_queue(rr, order) ==
    IF order = <<>> THEN "None" ELSE order[next_queue_index(rr, order) + 1]

\* sorted(self._menu.items()): the menu entries in lexicographic order of name
MenuSorted ==
    LET names == <<"americano", "cappuccino", "hot_chocolate", "latte",
                   "macchiato", "mocha", "tea">>
    IN  [i \in 1 .. Len(names) |-> <<names[i], REQUIRED_MENU[names[i]]>>]

\* the lines display() returns, for the given Scheduler fields
display(t, qs, order, flags, rr) ==
    <<[event |-> "display", time |-> t, next |-> next_queue(rr, order)],
      [event |-> "display_menu", menu |-> MenuSorted]>>
    \o [i \in 1 .. Len(order) |->
          [event    |-> "display_queue",
           queue    |-> order[i],
           size     |-> QueueRR_len(qs[order[i]]),
           capacity |-> qs[order[i]].capacity,
           skip     |-> flags[order[i]],
           tasks    |-> QueueRR_tasks_list(qs[order[i]])]]

all_empty(qs, order) == \A i \in 1 .. Len(order) : QueueRR_len(qs[order[i]]) = 0
all_clear(flags) == \A q \in DOMAIN flags : ~flags[q]

\* run's arguments (steps is None when hasSteps is FALSE) and rr_index at the call
Call(quantum, hasSteps, steps, start) ==
    [quantum |-> quantum, hasSteps |-> hasSteps, steps |-> steps, start |-> start]

\* no run in progress
NoCall == Call(0, FALSE, 0, 0)

-----------------------------------------------------------------------------
(* Scheduler *)

Scheduler_init ==
    /\ time = 0
    /\ queues = <<>>
    /\ queue_order = <<>>
    /\ id_counters = <<>>
    /\ skip_flags = <<>>
    /\ rr_index = 0
    /\ pc = "idle"
    /\ call = NoCall
    /\ turns_done = 0
    /\ held = NoTask
    /\ logs = <<>>
    /\ out = <<>>
    /\ last_op = "none"

create_queue(queue_id, capacity) ==
    /\ pc = "idle"
    /\ last_op' = "create_queue"
    /\ Len(queue_order) < MaxOrder
    /\ capacity > 0
    /\ call' = NoCall
    /\ queues' = (queue_id :> QueueRR_init(queue_id, capacity)) @@ queues
    /\ queue_order' = Append(queue_order, queue_id)
    /\ id_counters' = (queue_id :> 0) @@ id_counters
    /\ skip_flags' = (queue_id :> FALSE) @@ skip_flags
    /\ logs' = <<EvCreate(time, queue_id)>>
    /\ out' = <<>>
    /\ UNCHANGED <<time, rr_index, pc, turns_done, held>>

\* faulty variant: the queue is looked up before the item
enqueue_queuefirst(queue_id, item_name) ==
    /\ pc = "idle"
    /\ last_op' = "enqueue"
    /\ (item_name \in DOMAIN REQUIRED_MENU /\ queue_id \in DOMAIN queues)
          => id_counters[queue_id] < MaxCounter
    /\ call' = NoCall
    /\ IF queue_id \notin DOMAIN queues
       THEN /\ out' = <<>>
            /\ logs' = <<EvReject(time, queue_id, "unknown_queue")>>
            /\ UNCHANGED <<queues, id_counters>>
       ELSE IF item_name \notin DOMAIN REQUIRED_MENU
       THEN /\ out' = <<NoticeUnknownItem>>
            /\ logs' = <<EvReject(time, queue_id, "unknown_item")>>
            /\ UNCHANGED <<queues, id_counters>>
       ELSE LET burst == REQUIRED_MENU[item_name]
                n     == id_counters[queue_id] + 1
                tid   == TaskId(queue_id, n)
                r     == QueueRR_enqueue(queues[queue_id], Task(tid, burst))
            IN  /\ id_counters' = [id_counters EXCEPT ![queue_id] = n]
                /\ queues' = [queues EXCEPT ![queue_id] = r.q]
                /\ IF ~r.ret
                   THEN /\ out' = <<NoticeFull>>
                        /\ logs' = <<EvReject(time, queue_id, "full")>>
                   ELSE /\ out' = <<>>
                        /\ logs' = <<EvEnqueue(time, queue_id, tid, burst)>>
    /\ UNCHANGED <<time, queue_order, skip_flags, rr_index, pc, turns_done, held>>

\* faulty variant: the unknown-queue rejection prints a notice too
enqueue_noticequeue(queue_id, item_name) ==
    /\ pc = "idle"
    /\ last_op' = "enqueue"
    /\ (item_name \in DOMAIN REQUIRED_MENU /\ queue_id \in DOMAIN queues)
          => id_counters[queue_id] < MaxCounter
    /\ call' = NoCall
    /\ IF item_name \notin DOMAIN REQUIRED_MENU
       THEN /\ out' = <<NoticeUnknownItem>>
            /\ logs' = <<EvReject(time, queue_id, "unknown_item")>>
            /\ UNCHANGED <<queues, id_counters>>
       ELSE IF queue_id \notin DOMAIN queues
       THEN /\ out' = <<NoticeUnknownItem>>
            /\ logs' = <<EvReject(time, queue_id, "unknown_queue")>>
            /\ UNCHANGED <<queues, id_counters>>
       ELSE LET burst == REQUIRED_MENU[item_name]
                n     == id_counters[queue_id] + 1
                tid   == TaskId(queue_id, n)
                r     == QueueRR_enqueue(queues[queue_id], Task(tid, burst))
            IN  /\ id_counters' = [id_counters EXCEPT ![queue_id] = n]
                /\ queues' = [queues EXCEPT ![queue_id] = r.q]
                /\ IF ~r.ret
                   THEN /\ out' = <<NoticeFull>>
                        /\ logs' = <<EvReject(time, queue_id, "full")>>
                   ELSE /\ out' = <<>>
                        /\ logs' = <<EvEnqueue(time, queue_id, tid, burst)>>
    /\ UNCHANGED <<time, queue_order, skip_flags, rr_index, pc, turns_done, held>>

\* faulty variant: the task id is built from the counter before its increment
enqueue_oldcounter(queue_id, item_name) ==
    /\ pc = "idle"
    /\ last_op' = "enqueue"
    /\ (item_name \in DOMAIN REQUIRED_MENU /\ queue_id \in DOMAIN queues)
          => id_counters[queue_id] < MaxCounter
    /\ call' = NoCall
    /\ IF item_name \notin DOMAIN REQUIRED_MENU
       THEN /\ out' = <<NoticeUnknownItem>>
            /\ logs' = <<EvReject(time, queue_id, "unknown_item")>>
            /\ UNCHANGED <<queues, id_counters>>
       ELSE IF queue_id \notin DOMAIN queues
       THEN /\ out' = <<>>
            /\ logs' = <<EvReject(time, queue_id, "unknown_queue")>>
            /\ UNCHANGED <<queues, id_counters>>
       ELSE LET burst == REQUIRED_MENU[item_name]
                n     == id_counters[queue_id] + 1
                tid   == TaskId(queue_id, id_counters[queue_id])
                r     == QueueRR_enqueue(queues[queue_id], Task(tid, burst))
            IN  /\ id_counters' = [id_counters EXCEPT ![queue_id] = n]
                /\ queues' = [queues EXCEPT ![queue_id] = r.q]
                /\ IF ~r.ret
                   THEN /\ out' = <<NoticeFull>>
                        /\ logs' = <<EvReject(time, queue_id, "full")>>
                   ELSE /\ out' = <<>>
                        /\ logs' = <<EvEnqueue(time, queue_id, tid, burst)>>
    /\ UNCHANGED <<time, queue_order, skip_flags, rr_index, pc, turns_done, held>>

enqueue(queue_id, item_name) ==
    /\ pc = "idle"
    /\ last_op' = "enqueue"
    /\ (item_name \in DOMAIN REQUIRED_MENU /\ queue_id \in DOMAIN queues)
          => id_counters[queue_id] < MaxCounter
    /\ call' = NoCall
    /\ IF item_name \notin DOMAIN REQUIRED_MENU
       THEN /\ out' = <<NoticeUnknownItem>>
            /\ logs' = <<EvReject(time, queue_id, "unknown_item")>>
            /\ UNCHANGED <<queues, id_counters>>
       ELSE IF queue_id \notin DOMAIN queues
       THEN /\ out' = <<>>
            /\ logs' = <<EvReject(time, queue_id, "unknown_queue")>>
            /\ UNCHANGED <<queues, id_counters>>
       ELSE LET burst == REQUIRED_MENU[item_name]
                n     == id_counters[queue_id] + 1
                tid   == TaskId(queue_id, n)
                r     == QueueRR_enqueue(queues[queue_id], Task(tid, burst))
            IN  /\ id_counters' = [id_counters EXCEPT ![queue_id] = n]
                /\ queues' = [queues EXCEPT ![queue_id] = r.q]
                /\ IF ~r.ret
                   THEN /\ out' = <<NoticeFull>>
                        /\ logs' = <<EvReject(time, queue_id, "full")>>
                   ELSE /\ out' = <<>>
                        /\ logs' = <<EvEnqueue(time, queue_id, tid, burst)>>
    /\ UNCHANGED <<time, queue_order, skip_flags, rr_index, pc, turns_done, held>>

mark_skip(queue_id) ==
    /\ pc = "idle"
    /\ last_op' = "mark_skip"
    /\ call' = NoCall
    /\ logs' = <<EvSkip(time, queue_id)>>
    /\ out' = <<>>
    /\ skip_flags' = IF queue_id \in DOMAIN skip_flags
                     THEN [skip_flags EXCEPT ![queue_id] = TRUE]
                     ELSE skip_flags
    /\ UNCHANGED <<time, queues, queue_order, id_counters, rr_index, pc,
                   turns_done, held>>

\* the queue run's loop visits: queue_order[rr_index], after the wrap guard
turn_index == IF rr_index >= Len(queue_order)
              THEN rr_index % Len(queue_order) ELSE rr_index

turn_queue == queue_order[turn_index + 1]

\* whether the while loop is left after a turn that brought the state to (td, qs, flags):
\* with steps, the test at the loop head; without, the test at the end of every branch
\* faulty variant: the step limit is tested with > instead of >=
loop_exit_late(td, qs, flags) ==
    IF call.hasSteps
    THEN td > call.steps
    ELSE all_empty(qs, queue_order) /\ all_clear(flags)

\* faulty variant: the quiescence test forgets the skip flags
loop_exit_noflags(td, qs, flags) ==
    IF call.hasSteps
    THEN td >= call.steps
    ELSE all_empty(qs, queue_order)

loop_exit(td, qs, flags) ==
    IF call.hasSteps
    THEN td >= call.steps
    ELSE all_empty(qs, queue_order) /\ all_clear(flags)

\* the end of a turn: turns_done += 1, then leave the loop or go round again
end_turn(qs, flags) ==
    IF loop_exit(turns_done + 1, qs, flags)
    THEN pc' = "idle" /\ turns_done' = 0 /\ call' = NoCall
    ELSE pc' = "loop" /\ turns_done' = turns_done + 1 /\ call' = call

\* faulty variant: the validation of steps forgets the lower bound
run_nolower(quantum, hasSteps, steps) ==
    /\ pc = "idle"
    /\ last_op' = IF hasSteps THEN "run_steps" ELSE "run"
    /\ out' = <<>>
    /\ LET n_queues == Len(queue_order)
       IN  IF n_queues = 0
           THEN /\ logs' = <<>>
                /\ UNCHANGED <<rr_index, pc, call>>
           ELSE IF hasSteps /\ ~(steps <= n_queues)
           THEN /\ logs' = <<EvError(time, "invalid_steps")>>
                /\ UNCHANGED <<rr_index, pc, call>>
           ELSE /\ logs' = <<>>
                /\ rr_index' = IF rr_index >= n_queues
                               THEN rr_index % n_queues ELSE rr_index
                /\ pc' = "loop"
                /\ call' = Call(quantum, hasSteps, steps, rr_index)
    /\ UNCHANGED <<time, queues, queue_order, id_counters, skip_flags,
                   turns_done, held>>

\* faulty variant: steps is validated before the zero-queue return
run_validatefirst(quantum, hasSteps, steps) ==
    /\ pc = "idle"
    /\ last_op' = IF hasSteps THEN "run_steps" ELSE "run"
    /\ out' = <<>>
    /\ LET n_queues == Len(queue_order)
       IN  IF hasSteps /\ ~(1 <= steps /\ steps <= n_queues)
           THEN /\ logs' = <<EvError(time, "invalid_steps")>>
                /\ UNCHANGED <<rr_index, pc, call>>
           ELSE IF n_queues = 0
           THEN /\ logs' = <<>>
                /\ UNCHANGED <<rr_index, pc, call>>
           ELSE /\ logs' = <<>>
                /\ rr_index' = IF rr_index >= n_queues
                               THEN rr_index % n_queues ELSE rr_index
                /\ pc' = "loop"
                /\ call' = Call(quantum, hasSteps, steps, rr_index)
    /\ UNCHANGED <<time, queues, queue_order, id_counters, skip_flags,
                   turns_done, held>>

\* faulty variant: run without steps returns at once when the state is already quiescent
run_quiescentreturn(quantum, hasSteps, steps) ==
    /\ pc = "idle"
    /\ last_op' = IF hasSteps THEN "run_steps" ELSE "run"
    /\ out' = <<>>
    /\ LET n_queues == Len(queue_order)
       IN  IF n_queues = 0
           THEN /\ logs' = <<>>
                /\ UNCHANGED <<rr_index, pc, call>>
           ELSE IF hasSteps /\ ~(1 <= steps /\ steps <= n_queues)
           THEN /\ logs' = <<EvError(time, "invalid_steps")>>
                /\ UNCHANGED <<rr_index, pc, call>>
           ELSE IF ~hasSteps /\ all_empty(queues, queue_order) /\ all_clear(skip_flags)
           THEN /\ logs' = <<>>
                /\ UNCHANGED <<rr_index, pc, call>>
           ELSE /\ logs' = <<>>
                /\ rr_index' = IF rr_index >= n_queues
                               THEN rr_index % n_queues ELSE rr_index
                /\ pc' = "loop"
                /\ call' = Call(quantum, hasSteps, steps, rr_index)
    /\ UNCHANGED <<time, queues, queue_order, id_counters, skip_flags,
                   turns_done, held>>

run(quantum, hasSteps, steps) ==
    /\ pc = "idle"
    /\ last_op' = IF hasSteps THEN "run_steps" ELSE "run"
    /\ out' = <<>>
    /\ LET n_queues == Len(queue_order)
       IN  IF n_queues = 0
           THEN /\ logs' = <<>>
                /\ UNCHANGED <<rr_index, pc, call>>
           ELSE IF hasSteps /\ ~(1 <= steps /\ steps <= n_queues)
           THEN /\ logs' = <<EvError(time, "invalid_steps")>>
                /\ UNCHANGED <<rr_index, pc, call>>
           ELSE /\ logs' = <<>>
                /\ rr_index' = IF rr_index >= n_queues
                               THEN rr_index % n_queues ELSE rr_index
                /\ pc' = "loop"
                /\ call' = Call(quantum, hasSteps, steps, rr_index)
    /\ UNCHANGED <<time, queues, queue_order, id_counters, skip_flags,
                   turns_done, held>>

\* faulty variant: the skip branch leaves the loop iteration before advancing the pointer
run_turn_skip_noadvance ==
    /\ pc = "loop"
    /\ last_op' = last_op
    /\ skip_flags[turn_queue]
    /\ LET qid     == turn_queue
           flags   == [skip_flags EXCEPT ![qid] = FALSE]
       IN  /\ skip_flags' = flags
           /\ logs' = logs \o <<EvRun(time, qid)>>
                           \o display(time, queues, queue_order, flags, turn_index)
           /\ rr_index' = next_queue_index(turn_index, queue_order)
           /\ end_turn(queues, flags)
    /\ UNCHANGED <<time, queues, queue_order, id_counters, held, out>>

\* faulty variant: the skip branch does not clear the flag it consumes
run_turn_skip_keepflag ==
    /\ pc = "loop"
    /\ last_op' = last_op
    /\ skip_flags[turn_queue]
    /\ LET qid     == turn_queue
           n       == Len(queue_order)
       IN  /\ skip_flags' = skip_flags
           /\ logs' = logs \o <<EvRun(time, qid)>>
                           \o display(time, queues, queue_order, skip_flags, turn_index)
           /\ rr_index' = (next_queue_index(turn_index, queue_order) + 1) % n
           /\ end_turn(queues, skip_flags)
    /\ UNCHANGED <<time, queues, queue_order, id_counters, held, out>>

run_turn_skip ==
    /\ pc = "loop"
    /\ last_op' = last_op
    /\ skip_flags[turn_queue]
    /\ LET qid     == turn_queue
           n       == Len(queue_order)
           flags   == [skip_flags EXCEPT ![qid] = FALSE]
       IN  /\ skip_flags' = flags
           /\ logs' = logs \o <<EvRun(time, qid)>>
                           \o display(time, queues, queue_order, flags, turn_index)
           /\ rr_index' = (next_queue_index(turn_index, queue_order) + 1) % n
           /\ end_turn(queues, flags)
    /\ UNCHANGED <<time, queues, queue_order, id_counters, held, out>>

run_turn_empty ==
    /\ pc = "loop"
    /\ last_op' = last_op
    /\ ~skip_flags[turn_queue]
    /\ QueueRR_len(queues[turn_queue]) = 0
    /\ LET qid == turn_queue
           n   == Len(queue_order)
       IN  /\ logs' = logs \o <<EvRun(time, qid)>>
                           \o display(time, queues, queue_order, skip_flags, turn_index)
           /\ rr_index' = (next_queue_index(turn_index, queue_order) + 1) % n
           /\ end_turn(queues, skip_flags)
    /\ UNCHANGED <<time, queues, queue_order, id_counters, skip_flags, held, out>>

\* min(quantum, front_task.remaining)
\* faulty variant: the quantum is served whole, whatever the task has left
work_amount_nomin(quantum, front_task) == quantum

work_amount(quantum, front_task) == Min(quantum, front_task.remaining)

\* faulty variant: the clock advances by the quantum, not by the work done
run_turn_work_quantumtime ==
    /\ pc = "loop"
    /\ last_op' = last_op
    /\ ~skip_flags[turn_queue]
    /\ QueueRR_len(queues[turn_queue]) # 0
    /\ LET qid        == turn_queue
           n          == Len(queue_order)
           q          == queues[qid]
           front_task == QueueRR_peek(q)
           w          == work_amount(call.quantum, front_task)
           served     == Task(front_task.task_id, front_task.remaining - w)
           q1         == [q EXCEPT !.buf[q.front] = served]
           d          == QueueRR_dequeue(q1)
           now        == time + call.quantum
           rr         == (turn_index + 1) % n
       IN  /\ call.quantum >= 1
                \/ served.remaining <= MaxRemaining
           /\ time' = now
           /\ queues' = [queues EXCEPT ![qid] = d.q]
           /\ IF served.remaining = 0
              THEN /\ logs' = logs \o <<EvRun(time, qid),
                                        EvFinish(now, qid, d.ret.task_id)>>
                        \o display(now, queues', queue_order, skip_flags, rr)
                   /\ rr_index' = next_queue_index(rr, queue_order)
                   /\ held' = NoTask
                   /\ end_turn(queues', skip_flags)
              ELSE /\ logs' = logs \o <<EvRun(time, qid)>>
                   /\ held' = d.ret
                   /\ pc' = "requeue"
                   /\ UNCHANGED <<rr_index, turns_done, call>>
    /\ UNCHANGED <<queue_order, id_counters, skip_flags, out>>

\* faulty variant: a finished task is logged but stays at the front
run_turn_work_keepdone ==
    /\ pc = "loop"
    /\ last_op' = last_op
    /\ ~skip_flags[turn_queue]
    /\ QueueRR_len(queues[turn_queue]) # 0
    /\ LET qid        == turn_queue
           n          == Len(queue_order)
           q          == queues[qid]
           front_task == QueueRR_peek(q)
           w          == work_amount(call.quantum, front_task)
           served     == Task(front_task.task_id, front_task.remaining - w)
           q1         == [q EXCEPT !.buf[q.front] = served]
           d          == QueueRR_dequeue(q1)
           now        == time + w
           rr         == (turn_index + 1) % n
       IN  /\ call.quantum >= 1
                \/ served.remaining <= MaxRemaining
           /\ time' = now
           /\ queues' = [queues EXCEPT ![qid] = IF served.remaining = 0 THEN q1 ELSE d.q]
           /\ IF served.remaining = 0
              THEN /\ logs' = logs \o <<EvRun(time, qid),
                                        EvFinish(now, qid, d.ret.task_id)>>
                        \o display(now, queues', queue_order, skip_flags, rr)
                   /\ rr_index' = next_queue_index(rr, queue_order)
                   /\ held' = NoTask
                   /\ end_turn(queues', skip_flags)
              ELSE /\ logs' = logs \o <<EvRun(time, qid)>>
                   /\ held' = d.ret
                   /\ pc' = "requeue"
                   /\ UNCHANGED <<rr_index, turns_done, call>>
    /\ UNCHANGED <<queue_order, id_counters, skip_flags, out>>

run_turn_work ==
    /\ pc = "loop"
    /\ last_op' = last_op
    /\ ~skip_flags[turn_queue]
    /\ QueueRR_len(queues[turn_queue]) # 0
    /\ LET qid        == turn_queue
           n          == Len(queue_order)
           q          == queues[qid]
           front_task == QueueRR_peek(q)
           w          == work_amount(call.quantum, front_task)
           served     == Task(front_task.task_id, front_task.remaining - w)
           q1         == [q EXCEPT !.buf[q.front] = served]
           d          == QueueRR_dequeue(q1)
           now        == time + w
           rr         == (turn_index + 1) % n
       IN  /\ call.quantum >= 1
                \/ served.remaining <= MaxRemaining
           /\ time' = now
           /\ queues' = [queues EXCEPT ![qid] = d.q]
           /\ IF served.remaining = 0
              THEN /\ logs' = logs \o <<EvRun(time, qid),
                                        EvFinish(now, qid, d.ret.task_id)>>
                        \o display(now, queues', queue_order, skip_flags, rr)
                   /\ rr_index' = next_queue_index(rr, queue_order)
                   /\ held' = NoTask
                   /\ end_turn(queues', skip_flags)
              ELSE /\ logs' = logs \o <<EvRun(time, qid)>>
                   /\ held' = d.ret
                   /\ pc' = "requeue"
                   /\ UNCHANGED <<rr_index, turns_done, call>>
    /\ UNCHANGED <<queue_order, id_counters, skip_flags, out>>

run_requeue ==
    /\ pc = "requeue"
    /\ last_op' = last_op
    /\ LET qid == turn_queue
           n   == Len(queue_order)
           r   == QueueRR_enqueue(queues[qid], held)
           rr  == (turn_index + 1) % n
       IN  /\ queues' = [queues EXCEPT ![qid] = r.q]
           /\ logs' = logs
                \o <<IF ~r.ret
                     THEN EvFinish(time, qid, held.task_id)
                     ELSE EvWork(time, qid, held.task_id, held.remaining)>>
                \o display(time, queues', queue_order, skip_flags, rr)
           /\ rr_index' = next_queue_index(rr, queue_order)
           /\ held' = NoTask
           /\ end_turn(queues', skip_flags)
    /\ UNCHANGED <<time, queue_order, id_counters, skip_flags, out>>

-----------------------------------------------------------------------------
(* One QueueRR next to an abstract FIFO (SpecQ) *)

TestTasks == {Task("t1", 1), Task("t2", 2)}

Ret(op, ok, task, n, seq) ==
    [op |-> op, ok |-> ok, task |-> task, len |-> n, tasks |-> seq]

NoRet == Ret("none", FALSE, NoTask, 0, <<>>)

q_enqueue(task) ==
    /\ LET r == QueueRR_enqueue(qt, task)
       IN  /\ qt' = r.q
           /\ qret' = Ret("enqueue", r.ret, NoTask, 0, <<>>)
    /\ IF Len(absq) < qt.capacity
       THEN absq' = Append(absq, task) /\ absret' = Ret("enqueue", TRUE, NoTask, 0, <<>>)
       ELSE absq' = absq /\ absret' = Ret("enqueue", FALSE, NoTask, 0, <<>>)

q_dequeue ==
    /\ LET r == QueueRR_dequeue(qt)
       IN  /\ qt' = r.q
           /\ qret' = Ret("dequeue", r.ret # NoTask, r.ret, 0, <<>>)
    /\ IF absq = <<>>
       THEN absq' = absq /\ absret' = Ret("dequeue", FALSE, NoTask, 0, <<>>)
       ELSE absq' = Tail(absq) /\ absret' = Ret("dequeue", TRUE, Head(absq), 0, <<>>)

q_peek ==
    /\ qret' = Ret("peek", QueueRR_peek(qt) # NoTask, QueueRR_peek(qt), 0, <<>>)
    /\ absret' = IF absq = <<>>
                 THEN Ret("peek", FALSE, NoTask, 0, <<>>)
                 ELSE Ret("peek", TRUE, Head(absq), 0, <<>>)
    /\ UNCHANGED <<qt, absq>>

q_len ==
    /\ qret' = Ret("len", TRUE, NoTask, QueueRR_len(qt), <<>>)
    /\ absret' = Ret("len", TRUE, NoTask, Len(absq), <<>>)
    /\ UNCHANGED <<qt, absq>>

q_tasks_list ==
    /\ qret' = Ret("tasks_list", TRUE, NoTask, 0, QueueRR_tasks_list(qt))
    /\ absret' = Ret("tasks_list", TRUE, NoTask, 0, absq)
    /\ UNCHANGED <<qt, absq>>

-----------------------------------------------------------------------------
(* Specifications *)

Init ==
    /\ Scheduler_init
    /\ qt = QueueRR_init("Q", 1)
    /\ absq = <<>>
    /\ qret = NoRet
    /\ absret = NoRet

RunLoop == run_turn_skip \/ run_turn_empty \/ run_turn_work \/ run_requeue

Next ==
    \/ \E q \in QueueIds, c \in Capacities : create_queue(q, c) /\ UNCHANGED queueVars
    \/ \E q \in QueueIds, i \in Items : enqueue(q, i) /\ UNCHANGED queueVars
    \/ \E q \in QueueIds : mark_skip(q) /\ UNCHANGED queueVars
    \/ \E k \in Quanta : run(k, FALSE, 0) /\ UNCHANGED queueVars
    \/ \E k \in Quanta, s \in StepArgs : run(k, TRUE, s) /\ UNCHANGED queueVars
    \/ run_turn_skip /\ UNCHANGED queueVars
    \/ run_turn_empty /\ UNCHANGED queueVars
    \/ run_turn_work /\ UNCHANGED queueVars
    \/ run_requeue /\ UNCHANGED queueVars

Spec == Init /\ [][Next]_vars

FairSpec == Spec /\ WF_vars(RunLoop /\ UNCHANGED queueVars)

\* the quanta >= 1
PosQuanta == {k \in Quanta : k >= 1}

\* Next with every run given a quantum >= 1
NextPos ==
    \/ \E q \in QueueIds, c \in Capacities : create_queue(q, c) /\ UNCHANGED queueVars
    \/ \E q \in QueueIds, i \in Items : enqueue(q, i) /\ UNCHANGED queueVars
    \/ \E q \in QueueIds : mark_skip(q) /\ UNCHANGED queueVars
    \/ \E k \in PosQuanta : run(k, FALSE, 0) /\ UNCHANGED queueVars
    \/ \E k \in PosQuanta, s \in StepArgs : run(k, TRUE, s) /\ UNCHANGED queueVars
    \/ run_turn_skip /\ UNCHANGED queueVars
    \/ run_turn_empty /\ UNCHANGED queueVars
    \/ run_turn_work /\ UNCHANGED queueVars
    \/ run_requeue /\ UNCHANGED queueVars

SpecPos == Init /\ [][NextPos]_vars

InitQ ==
    /\ Scheduler_init
    /\ \E c \in 1 .. MaxQCap : qt = QueueRR_init("Q", c)
    /\ absq = <<>>
    /\ qret = NoRet
    /\ absret = NoRet

NextQ ==
    \/ \E t \in TestTasks : q_enqueue(t) /\ UNCHANGED schedVars
    \/ q_dequeue /\ UNCHANGED schedVars
    \/ q_peek /\ UNCHANGED schedVars
    \/ q_len /\ UNCHANGED schedVars
    \/ q_tasks_list /\ UNCHANGED schedVars

SpecQ == InitQ /\ [][NextQ]_vars

-----------------------------------------------------------------------------
(* Properties *)

\* the number of lines of a log whose event is ev
RECURSIVE Count(_, _)
Count(log, ev) ==
    IF log = <<>> THEN 0
    ELSE (IF Head(log).event = ev THEN 1 ELSE 0) + Count(Tail(log), ev)

\* some call of enqueue is this step
AdmissionStep == \E q \in QueueIds, i \in Items : enqueue(q, i)

\* the step is a rejected admission
RejectedAdmission == AdmissionStep /\ logs'[1].event = "reject"

\* C1: every queue's occupancy is between 0 and its capacity in every reachable
\* state, the state between the dequeue and the re-enqueue of a partially
\* serviced task included.
C1_CapacityInvariant ==
    \A q \in DOMAIN queues :
        /\ 0 <= QueueRR_len(queues[q])
        /\ QueueRR_len(queues[q]) <= queues[q].capacity

\* a task of a queue of capacity 2 that was full is held between dequeue and enqueue
C1_Witness ==
    /\ pc = "requeue"
    /\ queues[turn_queue].capacity = 2
    /\ QueueRR_len(queues[turn_queue]) = 1
    /\ \E q \in DOMAIN queues : QueueRR_len(queues[q]) = queues[q].capacity

\* C2: a rejected admission (unknown_item, unknown_queue or full) leaves the
\* contents of every queue, every id counter and the clock as they were.
C2_RejectionPurity ==
    [][RejectedAdmission =>
          /\ queues' = queues
          /\ id_counters' = id_counters
          /\ time' = time]_vars

\* C3: QueueRR is a bounded FIFO: after any interleaving of its operations its
\* head-to-tail contents and its length are those of the abstract sequence, and
\* every operation returned what the abstract FIFO returns (enqueue succeeds iff
\* there was room, dequeue and peek give the oldest element or signal empty).
C3_QueueIsFifo ==
    /\ QueueRR_tasks_list(qt) = absq
    /\ QueueRR_len(qt) = Len(absq)
    /\ QueueRR_len(qt) <= qt.capacity
    /\ QueueRR_peek(qt) = (IF absq = <<>> THEN NoTask ELSE Head(absq))
    /\ qret = absret

\* the contents wrap around the end of the buffer and a dequeue has just returned a task
C3_Witness ==
    /\ qt.capacity = 3
    /\ qt.front + qt.size > qt.capacity
    /\ qt.size >= 2
    /\ qret.op = "dequeue" /\ qret.ok

\* some call of run with a steps argument outside 1 .. number of queues is this step
InvalidStepsRun ==
    \E k \in Quanta, s \in StepArgs :
        /\ run(k, TRUE, s)
        /\ ~(1 <= s /\ s <= Len(queue_order))

\* what the claim says of such a call: one error line and nothing else changes
RejectedRun ==
    /\ logs' = <<EvError(time, "invalid_steps")>>
    /\ pc' = "idle"
    /\ UNCHANGED <<time, queues, queue_order, id_counters, skip_flags, rr_index>>

\* C4 as stated: in any reachable state, run with steps outside [1, number of
\* queues] emits exactly one invalid_steps error and changes nothing.
C4_StepsBoundAnyState == [][InvalidStepsRun => RejectedRun]_vars

\* C4: in any reachable state with at least one queue, run with steps outside
\* [1, number of queues] emits exactly one error event (reason invalid_steps)
\* and nothing else, performs no turn, and leaves the clock, every queue, every
\* skip flag and the cursor unchanged.
C4_StepsBound ==
    [][(InvalidStepsRun /\ Len(queue_order) >= 1) => RejectedRun]_vars

\* an invalid run was refused while a queue held a task, a flag was set and the
\* cursor was off 0
C4_Witness ==
    /\ pc = "idle"
    /\ logs = <<EvError(time, "invalid_steps")>>
    /\ rr_index = 1
    /\ \E q \in DOMAIN queues : QueueRR_len(queues[q]) > 0
    /\ \E q \in DOMAIN skip_flags : skip_flags[q]

\* C5: a run with 1 <= steps <= number of queues returns after exactly `steps`
\* turns whatever the queues and flags hold: its log has `steps` run lines and
\* `steps` snapshots, one per turn, and the cursor ends at
\* (starting cursor + steps) modulo the number of queues.
C5_BoundedMode ==
    [][/\ (pc' # "idle" /\ call'.hasSteps) =>
            /\ turns_done' < call'.steps
            /\ Count(logs', "display") = turns_done'
            /\ Count(logs', "run") = turns_done' + (IF pc' = "requeue" THEN 1 ELSE 0)
       /\ (pc # "idle" /\ pc' = "idle" /\ call.hasSteps) =>
            /\ Count(logs', "run") = call.steps
            /\ Count(logs', "display") = call.steps
            /\ rr_index' = (call.start + call.steps) % Len(queue_order)]_vars

\* a run of two turns has returned with the cursor wrapped around and tasks left
C5_Witness ==
    /\ pc = "idle"
    /\ Count(logs, "run") = 2
    /\ Count(logs, "work") = 1
    /\ rr_index = 1
    /\ \E q \in DOMAIN queues : QueueRR_len(queues[q]) = 2

Quiescent == all_empty(queues, queue_order) /\ all_clear(skip_flags)

\* C6: run without steps and with quantum >= 1 eventually returns; when a run
\* without steps returns, every queue is empty and every skip flag is clear;
\* and it does no turn after the first completed turn that leaves the state
\* quiescent (inside the loop, after a completed turn, the state is not quiescent).
C6_RunToQuiescence ==
    /\ (pc = "loop" /\ ~call.hasSteps /\ call.quantum >= 1) ~> (pc = "idle")
    /\ [][(pc # "idle" /\ pc' = "idle" /\ ~call.hasSteps) => Quiescent']_vars
    /\ []((pc = "loop" /\ ~call.hasSteps /\ turns_done > 0) => ~Quiescent)

\* a run without steps has returned after more turns than there are queues,
\* having finished a task it first served partially
C6_Witness ==
    /\ pc = "idle"
    /\ Count(logs, "run") > Len(queue_order)
    /\ Count(logs, "work") >= 1
    /\ Count(logs, "finish") >= 2
    /\ Quiescent

\* C7: the clock is never negative and never decreases, whatever integer run is
\* given as quantum, and it changes only in a work turn, by exactly the amount
\* taken off the front task's remaining burst.
C7_ClockMonotone ==
    [][/\ time >= 0 /\ time' >= 0
       /\ time' >= time
       /\ (time' # time) =>
            /\ pc = "loop"
            /\ QueueRR_len(queues[turn_queue]) > 0
            /\ time' - time =
                  QueueRR_peek(queues[turn_queue]).remaining
                    - (IF pc' = "requeue" THEN held'.remaining ELSE 0)]_vars

\* the lines of a log whose event is ev, in order
RECURSIVE Select(_, _)
Select(log, ev) ==
    IF log = <<>> THEN <<>>
    ELSE (IF Head(log).event = ev THEN <<Head(log)>> ELSE <<>>) \o Select(Tail(log), ev)

\* the i-th turn of the current run (from 0) visited queue_order[(start + i) mod n]
VisitsInOrder(log, c, order) ==
    LET runs == Select(log, "run")
    IN  \A i \in 1 .. Len(runs) :
            runs[i].queue = order[((c.start + i - 1) % Len(order)) + 1]

\* C8: no step removes or reorders an entry of queue_order; inside one run the
\* i-th turn visits queue_order[(c + i) mod n], c the cursor at the call; and no
\* step outside a run's turns moves the cursor, so a run starts where the
\* previous one stopped.
C8_OrderStability ==
    [][/\ Len(queue_order') >= Len(queue_order)
       /\ SubSeq(queue_order', 1, Len(queue_order)) = queue_order
       /\ (pc = "idle") => rr_index' = rr_index
       /\ (pc' # "idle") =>
            /\ VisitsInOrder(logs', call', queue_order')
            /\ call'.start = rr_index
                 \/ pc # "idle"
            /\ rr_index' = (call'.start + turns_done') % Len(queue_order')
       /\ (pc # "idle" /\ pc' = "idle") =>
            VisitsInOrder(logs', call, queue_order')]_vars

\* a run that started at the second of two distinct queues is in its third turn
C8_Witness ==
    /\ pc = "loop"
    /\ Len(queue_order) = 2
    /\ queue_order[1] # queue_order[2]
    /\ call.start = 1
    /\ turns_done = 2

\* the step is a turn of run on a queue whose skip flag is set
SkippedTurn == pc = "loop" /\ skip_flags[turn_queue] /\ vars' # vars

RejectReason(q, i) ==
    IF i \notin DOMAIN REQUIRED_MENU THEN "unknown_item"
    ELSE IF q \notin DOMAIN queues THEN "unknown_queue"
    ELSE IF QueueRR_len(queues[q]) >= queues[q].capacity THEN "full"
    ELSE "none"

\* C10: a rejected admission emits exactly one reject event, whose reason is that
\* of the first failing check in the order unknown_item, unknown_queue, full (an
\* unknown item on an unknown or on a full queue is an unknown_item); an
\* admission that fails no check emits no reject event.
C10_CheckOrder ==
    [][\A q \in QueueIds, i \in Items :
          enqueue(q, i) =>
             IF RejectReason(q, i) = "none"
             THEN Count(logs', "reject") = 0
             ELSE logs' = <<EvReject(time, q, RejectReason(q, i))>>]_vars

\* an unknown item was refused as unknown_item on a full queue
C10_Witness ==
    /\ pc = "idle"
    /\ Len(logs) = 1
    /\ logs[1].event = "reject"
    /\ logs[1].reason = "unknown_item"
    /\ logs[1].queue \in DOMAIN queues
    /\ QueueRR_len(queues[logs[1].queue]) = queues[logs[1].queue].capacity

\* the log is the single reject line of an admission refused for `why`
RejectedFor(why) ==
    /\ Len(logs) = 1
    /\ logs[1].event = "reject"
    /\ logs[1].reason = why

\* C11: the "we don't serve that" notice is written exactly when an admission is
\* rejected with unknown_item and the "at capacity" notice exactly when it is
\* rejected with full; an unknown_queue rejection, a successful admission and
\* every other operation write nothing, and a notice always comes with its
\* reject line in the returned log.
C11_Notices ==
    /\ out = IF RejectedFor("unknown_item") THEN <<NoticeUnknownItem>>
             ELSE IF RejectedFor("full") THEN <<NoticeFull>>
             ELSE <<>>
    /\ (out # <<>>) => last_op = "enqueue"

\* a full queue has refused an admission with the capacity notice
C11_Witness ==
    /\ last_op = "enqueue"
    /\ RejectedFor("full")
    /\ out = <<NoticeFull>>
    /\ QueueRR_len(queues[logs[1].queue]) = queues[logs[1].queue].capacity

\* C12: in every turn of run, whichever branch is taken, the snapshot's next=
\* field names the queue visited in that turn (the snapshot is rendered before
\* the cursor advances): the i-th snapshot of a log names the queue of its i-th
\* run line.
C12_SnapshotNamesVisited ==
    LET runs  == Select(logs, "run")
        snaps == Select(logs, "display")
    IN  \A i \in 1 .. Len(snaps) : snaps[i].next = runs[i].queue

NoDuplicates(seq) == \A i, j \in 1 .. Len(seq) : seq[i] = seq[j] => i = j

\* C13: queue_order never holds an id twice, it has as many positions as there
\* are queues, and create_queue with an existing id leaves that queue's
\* contents, counter and skip flag as they were.
C13_UniqueQueueIds ==
    [][/\ NoDuplicates(queue_order')
       /\ Len(queue_order') = Cardinality(DOMAIN queues')
       /\ \A q \in QueueIds, c \in Capacities :
             (create_queue(q, c) /\ q \in DOMAIN queues) =>
                 /\ queues'[q] = queues[q]
                 /\ id_counters'[q] = id_counters[q]
                 /\ skip_flags'[q] = skip_flags[q]]_vars

\* the step is a turn of run on a queue that has a task and no skip flag
WorkTurn ==
    /\ pc = "loop"
    /\ ~skip_flags[turn_queue]
    /\ QueueRR_len(queues[turn_queue]) # 0

\* the lines a step appends to the log
Appended == SubSeq(logs', Len(logs) + 1, Len(logs'))

\* the task with this id is in some queue
Queued(qs, tid) ==
    \E q \in DOMAIN qs :
        \E i \in 1 .. Len(QueueRR_tasks_list(qs[q])) :
            QueueRR_tasks_list(qs[q])[i].task_id = tid

\* C14: a turn that serves a task with a quantum at least what the task has left
\* (as every turn does when every quantum is >= every burst) is the task's only
\* turn: it emits one event for the task, a finish and no work, the task is not
\* put back, and afterwards it is in no queue.
C14_QuantumSufficiency ==
    [][(WorkTurn /\ call.quantum >= QueueRR_peek(queues[turn_queue]).remaining) =>
          LET t == QueueRR_peek(queues[turn_queue])
          IN  /\ pc' # "requeue"
              /\ Count(Appended, "finish") = 1
              /\ Count(Appended, "work") = 0
              /\ Select(Appended, "finish")[1].id = t.task_id
              /\ ~Queued(queues', t.task_id)]_vars

\* a task admitted with burst 2 was finished by the one turn that served it
C14_Witness ==
    \E i \in 1 .. (Len(logs) - 1) :
        /\ logs[i].event = "run"
        /\ logs[i + 1].event = "finish"
        /\ logs[i + 1].time = logs[i].time + REQUIRED_MENU["americano"]
        /\ ~Queued(queues, logs[i + 1].id)

\* the counter as the three digits of a task id
ThreeDigits(n) ==
    CASE n = 1 -> "001" [] n = 2 -> "002" [] n = 3 -> "003" [] n = 4 -> "004"
      [] OTHER -> "other"

\* C15: enqueue(q, item) with item on the menu, q existing and not full adds one
\* to q's counter, appends at q's tail a task with id "<q>-<new counter, 3
\* digits>" and remaining menu[item], returns exactly one enqueue event with that
\* id and burst, and leaves the clock, the cursor, the skip flags, the order and
\* every other queue and counter unchanged.
C15_SuccessfulAdmission ==
    [][\A q \in QueueIds, i \in Items :
          (enqueue(q, i) /\ RejectReason(q, i) = "none") =>
              LET n   == id_counters[q] + 1
                  tid == q \o "-" \o ThreeDigits(n)
              IN  /\ id_counters' = [id_counters EXCEPT ![q] = n]
                  /\ QueueRR_tasks_list(queues'[q])
                        = Append(QueueRR_tasks_list(queues[q]),
                                 Task(tid, REQUIRED_MENU[i]))
                  /\ logs' = <<[event |-> "enqueue", time |-> time, queue |-> q,
                                task |-> tid, remaining |-> REQUIRED_MENU[i]]>>
                  /\ \A o \in DOMAIN queues \ {q} : queues'[o] = queues[o]
                  /\ DOMAIN queues' = DOMAIN queues
                  /\ UNCHANGED <<time, rr_index, skip_flags, queue_order>>]_vars

\* the second task of A has just been admitted behind the first
C15_Witness ==
    /\ last_op = "enqueue"
    /\ Len(logs) = 1
    /\ logs[1].event = "enqueue"
    /\ logs[1].task = "A-002"
    /\ Len(QueueRR_tasks_list(queues["A"])) = 2
    /\ QueueRR_tasks_list(queues["A"])[2]
          = Task("A-002", REQUIRED_MENU["americano"])

\* C16: with no queue created, run returns at once with an empty event list and
\* changes nothing, for every quantum, with or without steps.
C16_ZeroQueueRun ==
    [][\A k \in Quanta, hs \in BOOLEAN, st \in StepArgs :
          (run(k, hs, st) /\ queue_order = <<>>) =>
              /\ logs' = <<>>
              /\ out' = <<>>
              /\ pc' = "idle"
              /\ UNCHANGED <<time, queues, queue_order, id_counters, skip_flags,
                             rr_index, turns_done, held, call>>]_vars

\* run has returned with no events on a scheduler without queues
C16_Witness ==
    /\ last_op \in {"run", "run_steps"}
    /\ queue_order = <<>>
    /\ pc = "idle"
    /\ logs = <<>>

\* C17: a work turn on q = [t1, .., tk] with w = min(quantum, t1.remaining): if
\* w < t1.remaining, t1 is taken from the head with remaining reduced by w and
\* then put back at the tail, leaving [t2, .., tk, t1], with one work event that
\* carries t1's id and new remaining; if w = t1.remaining the turn leaves
\* [t2, .., tk] with one finish event for t1; the other tasks and every other
\* queue are unchanged.
C17_RoundRobinRequeue ==
    [][/\ WorkTurn =>
            LET q    == turn_queue
                list == QueueRR_tasks_list(queues[q])
                t1   == list[1]
                w    == Min(call.quantum, t1.remaining)
            IN  /\ QueueRR_tasks_list(queues'[q]) = Tail(list)
                /\ \A o \in DOMAIN queues \ {q} : queues'[o] = queues[o]
                /\ IF w < t1.remaining
                   THEN /\ pc' = "requeue"
                        /\ held' = Task(t1.task_id, t1.remaining - w)
                        /\ Count(Appended, "work") = 0
                        /\ Count(Appended, "finish") = 0
                   ELSE /\ pc' # "requeue"
                        /\ Count(Appended, "work") = 0
                        /\ Select(Appended, "finish")
                              = <<[event |-> "finish", time |-> time',
                                   queue |-> q, id |-> t1.task_id]>>
       /\ (pc = "requeue" /\ vars' # vars) =>
            LET q == turn_queue
            IN  /\ QueueRR_tasks_list(queues'[q])
                      = Append(QueueRR_tasks_list(queues[q]), held)
                /\ \A o \in DOMAIN queues \ {q} : queues'[o] = queues[o]
                /\ Count(Appended, "finish") = 0
                /\ Select(Appended, "work")
                      = <<[event |-> "work", time |-> time, queue |-> q,
                           id |-> held.task_id, remaining |-> held.remaining]>>]_vars

\* A held [A-001, A-002]; a turn served A-001 in part and put it back at the tail
C17_Witness ==
    /\ "A" \in DOMAIN queues
    /\ QueueRR_tasks_list(queues["A"]) = <<Task("A-002", 2), Task("A-001", 1)>>
    /\ \E i \in 1 .. Len(logs) :
          /\ logs[i].event = "work"
          /\ logs[i].id = "A-001"
          /\ logs[i].remaining = 1

RECURSIVE SumRemaining(_)
SumRemaining(tasks) ==
    IF tasks = <<>> THEN 0 ELSE Head(tasks).remaining + SumRemaining(Tail(tasks))

RECURSIVE SumQueues(_, _)
SumQueues(ids, qs) ==
    IF ids = {} THEN 0
    ELSE LET q == CHOOSE x \in ids : TRUE
         IN  SumRemaining(QueueRR_tasks_list(qs[q])) + SumQueues(ids \ {q}, qs)

\* the work still to do: remaining summed over every queued task and over the
\* task a turn holds between its dequeue and its re-enqueue
Outstanding(qs, h) == SumQueues(DOMAIN qs, qs) + h.remaining

\* the step is create_queue with an id that already exists
DuplicateCreate ==
    \E q \in QueueIds, c \in Capacities : create_queue(q, c) /\ q \in DOMAIN queues

\* the step is an admission that passes the three checks
Admission ==
    \E q \in QueueIds, i \in Items : enqueue(q, i) /\ RejectReason(q, i) = "none"

\* C18: with quanta >= 1 and distinct queue ids the clock equals the bursts
\* admitted minus the remaining work queued: clock plus remaining work is 0 at
\* the start, grows by the burst at each successful admission and is left as it
\* was by every other step that does not re-create an existing queue; and every
\* finish or work event carries the clock after the work of its turn.
C18_WorkConservation ==
    [][/\ \A q \in QueueIds, i \in Items :
             (enqueue(q, i) /\ RejectReason(q, i) = "none") =>
                 time' + Outstanding(queues', held')
                    = time + Outstanding(queues, held) + REQUIRED_MENU[i]
       /\ (~Admission /\ ~DuplicateCreate) =>
             time' + Outstanding(queues', held') = time + Outstanding(queues, held)
       /\ pc # "idle" =>
             \A j \in 1 .. Len(Appended) :
                 Appended[j].event \in {"work", "finish"} => Appended[j].time = time']_vars

\* two tasks of burst 2 were admitted into one queue, three units were served
C18_Witness ==
    /\ pc = "idle"
    /\ Len(queue_order) = 1
    /\ id_counters[queue_order[1]] = 2
    /\ time = 3
    /\ Outstanding(queues, held) = 1

\* the cost of the menu item of Items, with which every task is admitted
AdmittedCost == REQUIRED_MENU["americano"]

\* C19: with quanta >= 1 every task in a queue, and the one held between dequeue
\* and re-enqueue, has 1 <= remaining <= the cost it was admitted with; no queue
\* and no snapshot shows a task with remaining 0.
C19_RemainingBounds ==
    /\ \A q \in DOMAIN queues :
          \A i \in 1 .. Len(QueueRR_tasks_list(queues[q])) :
              /\ 1 <= QueueRR_tasks_list(queues[q])[i].remaining
              /\ QueueRR_tasks_list(queues[q])[i].remaining <= AdmittedCost
    /\ pc = "requeue" => (1 <= held.remaining /\ held.remaining <= AdmittedCost)
    /\ \A i \in 1 .. Len(logs) :
          logs[i].event = "display_queue" =>
              \A j \in 1 .. Len(logs[i].tasks) : logs[i].tasks[j].remaining >= 1

\* a task was finished and the snapshot of that turn shows its queue with
\* another task that has 1 left
C19_Witness ==
    \E i \in 1 .. Len(logs) :
        /\ logs[i].event = "finish"
        /\ \E j \in (i + 1) .. Len(logs) :
              /\ logs[j].event = "display_queue"
              /\ logs[j].queue = logs[i].queue
              /\ Len(logs[j].tasks) = 1
              /\ logs[j].tasks[1].remaining = 1
              /\ logs[j].tasks[1].task_id # logs[i].id

\* C20: run without steps, called with at least one queue in a quiescent state,
\* enters the loop and does exactly one turn, on the cursor queue: one run line
\* and one snapshot, no work or finish, the cursor moved by one modulo the number
\* of queues, the clock, the queues and the flags unchanged; then it returns.
C20_AtLeastOneTurn ==
    [][/\ \A k \in Quanta :
             (run(k, FALSE, 0) /\ queue_order # <<>> /\ Quiescent) =>
                 /\ pc' = "loop"
                 /\ logs' = <<>>
                 /\ UNCHANGED <<time, queues, skip_flags, rr_index>>
       /\ (pc = "loop" /\ ~call.hasSteps /\ turns_done = 0 /\ Quiescent
             /\ vars' # vars) =>
                 /\ pc' = "idle"
                 /\ Select(logs', "run")
                       = <<[event |-> "run", time |-> time,
                            queue |-> queue_order[rr_index + 1]]>>
                 /\ Count(logs', "display") = 1
                 /\ Count(logs', "work") = 0
                 /\ Count(logs', "finish") = 0
                 /\ rr_index' = (rr_index + 1) % Len(queue_order)
                 /\ UNCHANGED <<time, queues, skip_flags>>]_vars

\* run without steps has returned from a quiescent scheduler with two queues
\* after its one turn, on B, and the cursor is back on A
C20_Witness ==
    /\ last_op = "run"
    /\ pc = "idle"
    /\ Len(queue_order) = 2
    /\ Quiescent
    /\ Select(logs, "run") = <<[event |-> "run", time |-> time, queue |-> queue_order[2]]>>
    /\ Count(logs, "display") = 1
    /\ rr_index = 0

====
